---- MODULE Spec2Model ----
(***************************************************************************)
(* The encrypted wallet key-store of solm (src/services/WalletService.ts): *)
(* one record file per wallet under accounts/, the name map wallets.json,  *)
(* the in-memory copy of the map and the session password cache.           *)
(* race holds the create calls of two concurrent invocations of the CLI,   *)
(* each with a WalletService of its own over the same directory.           *)
(*                                                                         *)
(* Strings are sequences of one-character strings, so that toLowerCase,    *)
(* trim, the name pattern and localeCompare are computed, not assumed.     *)
(* undefined and the empty string are both the empty sequence: every test  *)
(* the service makes on a name is a truthiness test (!name, if (name)).    *)
(***************************************************************************)
EXTENDS Integers, Sequences, FiniteSets, TLC

VARIABLES files, mapFile, walletMap, passwordCache, lastOp, race

vars == <<files, mapFile, walletMap, passwordCache, lastOp, race>>

----------------------------------------------------------------------------
(* Bounds of the model *)

\* creation is cut off once the next index would exceed this
MaxIndex == 2
\* frames of the resolveWallet/getWallet recursion that are unfolded
MaxDepth == 1

----------------------------------------------------------------------------
(* Program constants *)

CURRENT_VERSION == 1
NAME_MIN_LENGTH == 3
NAME_MAX_LENGTH == 32
\* length of a base58-encoded 32-byte public key
ADDRESS_LENGTH == 44
\* a record field that is absent: !wallet.version holds, wallet.index is
\* undefined
NoVersion == 0
NoIndex == -1

----------------------------------------------------------------------------
(* Strings *)

Undefined == <<>>

UpperCase == <<"A","B","C","D","E","F","G","H","I","J","K","L","M",
               "N","O","P","Q","R","S","T","U","V","W","X","Y","Z">>
LowerCase == <<"a","b","c","d","e","f","g","h","i","j","k","l","m",
               "n","o","p","q","r","s","t","u","v","w","x","y","z">>
Digits == <<"0","1","2","3","4","5","6","7","8","9">>
WhiteSpace == {" ", "\t"}

Range(s) == {s[i] : i \in DOMAIN s}

AlphaNumeric == Range(UpperCase) \cup Range(LowerCase) \cup Range(Digits)

Characters == AlphaNumeric \cup WhiteSpace \cup {"-", "_"}

LowerOf ==
  [c \in Characters |->
     IF c \in Range(UpperCase)
     THEN LowerCase[CHOOSE i \in DOMAIN UpperCase : UpperCase[i] = c]
     ELSE c]

toLowerCaseChar(c) == LowerOf[c]

toLowerCase(s) == [i \in 1..Len(s) |-> toLowerCaseChar(s[i])]

RECURSIVE trimStart(_)
trimStart(s) ==
  IF s = <<>> \/ Head(s) \notin WhiteSpace THEN s ELSE trimStart(Tail(s))

RECURSIVE trimEnd(_)
trimEnd(s) ==
  IF s = <<>> \/ s[Len(s)] \notin WhiteSpace THEN s
  ELSE trimEnd(SubSeq(s, 1, Len(s) - 1))

trim(s) == trimEnd(trimStart(s))

\* faulty variant: trims but forgets to lower-case
normalizeName_NoLower(name) == trim(name)

normalizeName(name) == trim(toLowerCase(name))

\* /^[a-zA-Z0-9][a-zA-Z0-9-_]*[a-zA-Z0-9]$/
NAME_PATTERN(s) ==
  /\ Len(s) >= 2
  /\ s[1] \in AlphaNumeric
  /\ s[Len(s)] \in AlphaNumeric
  /\ \A i \in 2..(Len(s) - 1) : s[i] \in AlphaNumeric \cup {"-", "_"}

\* String.prototype.localeCompare: letters are ordered alphabetically
\* whatever their case, digits come before letters, and case (lower first)
\* decides only between strings that are otherwise equal.
CollationOrder == Digits \o LowerCase

PrimaryOf ==
  [c \in Characters |->
     LET l == LowerOf[c]
     IN  IF l \in Range(CollationOrder)
         THEN CHOOSE i \in DOMAIN CollationOrder : CollationOrder[i] = l
         ELSE 0]

CaseRankOf == [c \in Characters |-> IF c \in Range(UpperCase) THEN 1 ELSE 0]

\* a sorts before b when the strings are compared by key, character by
\* character, a proper prefix first
LexLess(a, b, key) ==
  \E i \in 1..Len(a) + 1 :
     /\ \A j \in 1..(i - 1) : j <= Len(b) /\ key[a[j]] = key[b[j]]
     /\ \/ i = Len(a) + 1 /\ Len(b) >= i
        \/ i <= Len(a) /\ i <= Len(b) /\ key[a[i]] < key[b[i]]

localeCompare(a, b) ==
  IF LexLess(a, b, PrimaryOf) THEN -1
  ELSE IF LexLess(b, a, PrimaryOf) THEN 1
  ELSE IF LexLess(a, b, CaseRankOf) THEN -1
  ELSE IF LexLess(b, a, CaseRankOf) THEN 1
  ELSE 0

----------------------------------------------------------------------------
(* Values the runs draw from *)

\* first characters of the addresses; the rest of an address is filled
\* with one base58 character
AddrHeads == <<"B", "a">>

Addr(i) == [k \in 1..ADDRESS_LENGTH |-> IF k = 1 THEN AddrHeads[i] ELSE "Q"]

Addrs == {Addr(i) : i \in DOMAIN AddrHeads}

\* the base58 secret key of the key pair whose public key is a; the
\* cryptography is a black box, a secret key determines its public key
secretKeyOf(a) == <<"secretKey", a>>
InvalidSeed == <<"garbage">>
Seeds == {secretKeyOf(a) : a \in Addrs} \cup {InvalidSeed}

Alice == <<"A","l","i","c","e">>
AliceVariant == <<"a","l","i","c","e"," ">>
AliceUpper == <<" ","A","L","I","C","E">>
Bob == <<"b","o","b">>
TooShort == <<"a","b">>
BadPattern == <<"a","b","-">>
TooLong == [i \in 1..(NAME_MAX_LENGTH + 1) |-> "a"]
Unknown == <<"n","o","p","e">>

NameInputs == {Undefined, Alice, AliceVariant, Bob, BadPattern}
LookupInputs == {AliceUpper, Unknown} \cup Addrs
NewNameInputs == {Undefined, AliceVariant, Bob, BadPattern}
Salts == {"5a17"}
HotTags == << <<" ","H","o","t">>, <<"h","o","t">> >>
\* the password and the tags a creation is called with
CreateInputs == {[password |-> "password123", tags |-> HotTags]}

----------------------------------------------------------------------------
(* Maps (JavaScript objects / Map / the accounts directory) *)

EmptyMap == [x \in {} |-> x]

MapPut(m, k, v) == [x \in DOMAIN m \cup {k} |-> IF x = k THEN v ELSE m[x]]

MapDel(m, k) == [x \in DOMAIN m \ {k} |-> m[x]]

Max(S) == CHOOSE x \in S : \A y \in S : y <= x

\* the arrangements of the elements of S in a sequence
Arrangements(S) ==
  {s \in [1..Cardinality(S) -> S] : \A i, j \in DOMAIN s : i # j => s[i] # s[j]}

\* addresses.sort((a, b) => a.localeCompare(b))
sortByPublicKey(S) ==
  CHOOSE s \in Arrangements(S) :
     \A i, j \in DOMAIN s : i < j => localeCompare(s[i], s[j]) < 0

----------------------------------------------------------------------------
(* The service.  st is the state an operation runs on:                     *)
(* [files, mapFile, walletMap, passwordCache]; an operation returns        *)
(* [st, res, val]: the state it leaves, "ok" or the error it throws, or    *)
(* "hang" when it never returns, and the returned value.                   *)

Ok == "ok"
Hang == "hang"

Out(st, res, val) == [st |-> st, res |-> res, val |-> val]

encrypt(data, password) == [data |-> data, password |-> password]

\* faulty variant: the lengths are those of the name as typed
validateNameFormat_RawLength(name) ==
  IF name = Undefined THEN Ok
  ELSE IF Len(name) < NAME_MIN_LENGTH THEN "NameTooShort"
  ELSE IF Len(name) > NAME_MAX_LENGTH THEN "NameTooLong"
  ELSE IF ~NAME_PATTERN(normalizeName(name)) THEN "NamePattern"
  ELSE Ok

validateNameFormat(name) ==
  IF name = Undefined THEN Ok
  ELSE LET normalizedName == normalizeName(name)
       IN  IF Len(normalizedName) < NAME_MIN_LENGTH THEN "NameTooShort"
           ELSE IF Len(normalizedName) > NAME_MAX_LENGTH THEN "NameTooLong"
           ELSE IF ~NAME_PATTERN(normalizedName) THEN "NamePattern"
           ELSE Ok

\* faulty variant: the ENOENT branch, whatever the file holds
loadWalletMap_Default(st) == [st EXCEPT !.walletMap = EmptyMap]

\* ENOENT and an empty wallets object read the same
loadWalletMap(st) == [st EXCEPT !.walletMap = st.mapFile]

saveWalletMap(st) == [st EXCEPT !.mapFile = st.walletMap]

\* faulty variant: never finds the name taken
validateNameAvailability_NoCheck(st, name) ==
  IF name = Undefined THEN Out(st, Ok, Undefined)
  ELSE Out(loadWalletMap(st), Ok, Undefined)

validateNameAvailability(st, name) ==
  IF name = Undefined THEN Out(st, Ok, Undefined)
  ELSE LET normalizedName == normalizeName(name)
           l == loadWalletMap(st)
       IN  IF normalizedName \in DOMAIN l.walletMap
           THEN Out(l, "DuplicateName", Undefined)
           ELSE Out(l, Ok, Undefined)

\* faulty variant: keys the map by the name as typed
addToMap_RawKey(st, name, publicKey) ==
  IF name = Undefined THEN st
  ELSE LET l == loadWalletMap(st)
       IN  saveWalletMap([l EXCEPT !.walletMap = MapPut(@, name, publicKey)])

addToMap(st, name, publicKey) ==
  IF name = Undefined THEN st
  ELSE LET normalizedName == normalizeName(name)
           l == loadWalletMap(st)
       IN  saveWalletMap([l EXCEPT !.walletMap = MapPut(@, normalizedName, publicKey)])

removeFromMap(st, name) ==
  LET normalizedName == normalizeName(name)
      l == loadWalletMap(st)
  IN  saveWalletMap([l EXCEPT !.walletMap = MapDel(@, normalizedName)])

validateSeedPhrase(seedPhrase) ==
  IF \E a \in Addrs : seedPhrase = secretKeyOf(a) THEN Ok ELSE "InvalidSeed"

\* Keypair.fromSecretKey(bs58.decode(seedPhrase)).publicKey.toString()
publicKeyOf(seedPhrase) == seedPhrase[2]

saveWallet(st, walletInfo) ==
  [st EXCEPT !.files = MapPut(@, walletInfo.publicKey, walletInfo)]

WalletListInfo(wallet) ==
  [publicKey |-> wallet.publicKey, name |-> wallet.name,
   tags |-> wallet.tags, index |-> wallet.index]

\* readdir order is the file system's; here the collation order of the names
readdir(fs) == sortByPublicKey(DOMAIN fs)

\* faulty variant: the catch branch, an empty list
listWallets_Empty(fs) == <<>>

\* Every record of a reachable store carries a version (AllVersioned), so
\* migrateWallet returns it as read.  Array.prototype.sort is stable.
listWallets(fs) ==
  LET dir == readdir(fs)
      pos(a) == CHOOSE i \in DOMAIN dir : dir[i] = a
      sorted == CHOOSE s \in Arrangements(DOMAIN fs) :
                  \A i, j \in DOMAIN s : i < j =>
                     \/ fs[s[i]].index < fs[s[j]].index
                     \/ /\ fs[s[i]].index = fs[s[j]].index
                        /\ pos(s[i]) < pos(s[j])
  IN  [i \in DOMAIN sorted |-> WalletListInfo(fs[sorted[i]])]

\* faulty variant: the first index is 1
getNextIndex_FromOne(fs) ==
  LET wallets == listWallets(fs)
  IN  IF Len(wallets) = 0 THEN 1
      ELSE Max({wallets[i].index : i \in DOMAIN wallets}) + 1

getNextIndex(fs) ==
  LET wallets == listWallets(fs)
  IN  IF Len(wallets) = 0 THEN 0
      ELSE Max({wallets[i].index : i \in DOMAIN wallets}) + 1

validateIndex(fs, index) ==
  LET wallets == listWallets(fs)
  IN  IF \E i \in DOMAIN wallets : wallets[i].index = index
      THEN "IndexInUse" ELSE Ok

\* faulty variant: the computed index is not the one written
newWalletInfo_IndexZero(publicKey, name, salt, tags, index, secretKey, password) ==
  [publicKey |-> publicKey,
   name |-> name,
   salt |-> salt,
   tags |-> [i \in DOMAIN tags |-> toLowerCase(trim(tags[i]))],
   index |-> 0,
   encryptedPrivateKey |-> encrypt(secretKey, <<password, salt>>),
   version |-> CURRENT_VERSION]

newWalletInfo(publicKey, name, salt, tags, index, secretKey, password) ==
  [publicKey |-> publicKey,
   name |-> name,
   salt |-> salt,
   tags |-> [i \in DOMAIN tags |-> toLowerCase(trim(tags[i]))],
   index |-> index,
   encryptedPrivateKey |-> encrypt(secretKey, <<password, salt>>),
   version |-> CURRENT_VERSION]

\* the part generateWallet and importWallet share, from getNextIndex on
persistNewWallet(st, name, password, tags, publicKey, salt, secretKey) ==
  LET index == getNextIndex(st.files)
      checked == validateIndex(st.files, index)
  IN  IF checked # Ok THEN Out(st, checked, Undefined)
      ELSE LET walletInfo == newWalletInfo(publicKey, name, salt, tags, index,
                                           secretKey, password)
               written == [st EXCEPT !.files = MapPut(@, publicKey, walletInfo)]
               mapped == IF name # Undefined
                         THEN addToMap(written, name, publicKey)
                         ELSE written
               cached == [mapped EXCEPT
                            !.passwordCache = MapPut(@, publicKey, password)]
           IN  Out(cached, Ok, publicKey)

\* faulty variant: the record is written before the name is validated
generateWallet_WriteFirst(st, name, password, tags, publicKey, salt) ==
  LET made == persistNewWallet(st, Undefined, password, tags, publicKey, salt,
                               secretKeyOf(publicKey))
      format == IF name # Undefined THEN validateNameFormat(name) ELSE Ok
      avail == IF name # Undefined THEN validateNameAvailability(made.st, name)
               ELSE Out(made.st, Ok, Undefined)
  IN  IF format # Ok THEN Out(made.st, format, Undefined)
      ELSE IF avail.res # Ok THEN avail
      ELSE persistNewWallet(avail.st, name, password, tags, publicKey, salt,
                            secretKeyOf(publicKey))

\* publicKey and salt are the outcomes of Keypair.generate() and randomBytes
generateWallet(st, name, password, tags, publicKey, salt) ==
  LET format == IF name # Undefined THEN validateNameFormat(name) ELSE Ok
  IN  IF format # Ok THEN Out(st, format, Undefined)
      ELSE LET avail == IF name # Undefined
                        THEN validateNameAvailability(st, name)
                        ELSE Out(st, Ok, Undefined)
           IN  IF avail.res # Ok THEN avail
               ELSE persistNewWallet(avail.st, name, password, tags, publicKey,
                                     salt, secretKeyOf(publicKey))

importWallet(st, name, password, seedPhrase, tags, salt) ==
  LET format == IF name # Undefined THEN validateNameFormat(name) ELSE Ok
  IN  IF format # Ok THEN Out(st, format, Undefined)
      ELSE LET avail == IF name # Undefined
                        THEN validateNameAvailability(st, name)
                        ELSE Out(st, Ok, Undefined)
           IN  IF avail.res # Ok THEN avail
               ELSE IF validateSeedPhrase(seedPhrase) # Ok
               THEN Out(avail.st, validateSeedPhrase(seedPhrase), Undefined)
               ELSE persistNewWallet(avail.st, name, password, tags,
                                     publicKeyOf(seedPhrase), salt, seedPhrase)

\* resolveWallet calls getWallet and getWallet calls resolveWallet, each
\* with the argument it was given.  depth counts the nested resolveWallet
\* frames still unfolded; a chain that has not returned by then never
\* returns, because every frame sees the same argument and the same map.
RECURSIVE resolveWallet(_, _, _)
RECURSIVE getWallet(_, _, _)

resolveWallet(st, nameOrAddress, depth) ==
  LET l == loadWalletMap(st)
      normalizedName == normalizeName(nameOrAddress)
  IN  IF normalizedName \in DOMAIN l.walletMap
      THEN Out(l, Ok, l.walletMap[normalizedName])
      ELSE IF depth = 0 THEN Out(l, Hang, Undefined)
      ELSE LET got == getWallet(l, nameOrAddress, depth - 1)
           IN  IF got.res = Hang THEN Out(got.st, Hang, Undefined)
               ELSE IF got.res = Ok THEN Out(got.st, Ok, nameOrAddress)
               ELSE Out(got.st, "NotFound", Undefined)

getWallet(st, nameOrAddress, depth) ==
  LET resolved == resolveWallet(st, nameOrAddress, depth)
  IN  IF resolved.res # Ok THEN resolved
      ELSE IF resolved.val \in DOMAIN resolved.st.files
      THEN Out(resolved.st, Ok, resolved.st.files[resolved.val])
      ELSE Out(resolved.st, "WalletNotFound", Undefined)

renameWallet(st, nameOrAddress, newName) ==
  LET resolved == resolveWallet(st, nameOrAddress, MaxDepth)
  IN  IF resolved.res # Ok THEN resolved
      ELSE
      LET publicKey == resolved.val
          got == getWallet(resolved.st, publicKey, MaxDepth)
      IN  IF got.res # Ok THEN got
          ELSE
          LET wallet == got.val
              removed == IF wallet.name # Undefined
                         THEN removeFromMap(got.st, wallet.name)
                         ELSE got.st
              format == validateNameFormat(newName)
              avail == validateNameAvailability(removed, newName)
          IN  IF newName # Undefined /\ format # Ok
              THEN Out(removed, format, Undefined)
              ELSE IF newName # Undefined /\ avail.res # Ok
              THEN avail
              ELSE LET added == IF newName # Undefined
                                THEN addToMap(avail.st, newName, publicKey)
                                ELSE removed
                   IN  Out(saveWallet(added, [wallet EXCEPT !.name = newName]),
                           Ok, publicKey)

\* faulty variant: the wallets are ordered by their present index,
\* highest first, instead of by publicKey
reindexWallets_ByIndexDesc(st) ==
  LET dir == readdir(st.files)
      pos(a) == CHOOSE i \in DOMAIN dir : dir[i] = a
      wallets == CHOOSE s \in Arrangements(DOMAIN st.files) :
                   \A i, j \in DOMAIN s : i < j =>
                      \/ st.files[s[i]].index > st.files[s[j]].index
                      \/ /\ st.files[s[i]].index = st.files[s[j]].index
                         /\ pos(s[i]) < pos(s[j])
  IN  Out([st EXCEPT !.files =
             [a \in DOMAIN st.files |->
                [st.files[a] EXCEPT
                   !.index = (CHOOSE i \in DOMAIN wallets : wallets[i] = a) - 1,
                   !.version = CURRENT_VERSION]]],
          Ok, Undefined)

\* faulty variant: numbers the wallets from 1
reindexWallets_FromOne(st) ==
  LET jsonFiles == readdir(st.files)
      wallets == sortByPublicKey(DOMAIN st.files)
  IN  Out([st EXCEPT !.files =
             [a \in DOMAIN st.files |->
                [st.files[a] EXCEPT
                   !.index = CHOOSE i \in DOMAIN wallets : wallets[i] = a,
                   !.version = CURRENT_VERSION]]],
          Ok, Undefined)

\* faulty variant: writes the records back without their version
reindexWallets_NoVersion(st) ==
  LET wallets == sortByPublicKey(DOMAIN st.files)
  IN  Out([st EXCEPT !.files =
             [a \in DOMAIN st.files |->
                [st.files[a] EXCEPT
                   !.index = (CHOOSE i \in DOMAIN wallets : wallets[i] = a) - 1,
                   !.version = NoVersion]]],
          Ok, Undefined)

\* publicKeys are distinct, so the sort has one result whatever order
\* readdir gave; the writes go to distinct files
reindexWallets(st) ==
  LET jsonFiles == readdir(st.files)
      wallets == sortByPublicKey(DOMAIN st.files)
  IN  IF Len(jsonFiles) = 0 THEN Out(st, Ok, Undefined)
      ELSE Out([st EXCEPT !.files =
                  [a \in DOMAIN st.files |->
                     [st.files[a] EXCEPT
                        !.index = (CHOOSE i \in DOMAIN wallets : wallets[i] = a) - 1,
                        !.version = CURRENT_VERSION]]],
               Ok, Undefined)

\* the cipher is a black box: the plaintext comes back under the key it
\* was encrypted with, anything else under another key
decrypt(encryptedData, password) ==
  IF encryptedData.password = password THEN encryptedData.data
  ELSE InvalidSeed

\* bs58.decode and Keypair.fromSecretKey accept what validateSeedPhrase
\* accepts; whatever they throw is rethrown as the invalid-password error
getKeypair(st, nameOrAddress) ==
  LET resolved == resolveWallet(st, nameOrAddress, MaxDepth)
  IN  IF resolved.res # Ok THEN resolved
      ELSE
      LET publicKey == resolved.val
          got == getWallet(resolved.st, publicKey, MaxDepth)
      IN  IF got.res # Ok THEN got
          ELSE IF publicKey \notin DOMAIN got.st.passwordCache
          THEN Out(got.st, "PasswordNotSet", Undefined)
          ELSE
          LET walletInfo == got.val
              password == got.st.passwordCache[publicKey]
              plain == decrypt(walletInfo.encryptedPrivateKey,
                               <<password, walletInfo.salt>>)
          IN  IF validateSeedPhrase(plain) # Ok
              THEN Out(got.st, "InvalidPassword", Undefined)
              ELSE Out(got.st, Ok,
                       [publicKey |-> publicKeyOf(plain), secretKey |-> plain])

\* Array.from(new Set(array)): the first occurrence of each element
RECURSIVE ArrayFromSet(_)
ArrayFromSet(array) ==
  IF array = <<>> THEN <<>>
  ELSE LET front == ArrayFromSet(SubSeq(array, 1, Len(array) - 1))
           last == array[Len(array)]
       IN  IF last \in Range(front) THEN front ELSE Append(front, last)

\* array.filter(x => !remove.has(x))
RECURSIVE FilterOut(_, _)
FilterOut(array, remove) ==
  IF array = <<>> THEN <<>>
  ELSE LET front == FilterOut(SubSeq(array, 1, Len(array) - 1), remove)
           last == array[Len(array)]
       IN  IF last \in remove THEN front ELSE Append(front, last)

addTags(st, nameOrAddress, tags) ==
  LET resolved == resolveWallet(st, nameOrAddress, MaxDepth)
  IN  IF resolved.res # Ok THEN resolved
      ELSE
      LET got == getWallet(resolved.st, resolved.val, MaxDepth)
      IN  IF got.res # Ok THEN got
          ELSE
          LET wallet == got.val
              uniqueTags ==
                ArrayFromSet(wallet.tags \o
                             [i \in DOMAIN tags |-> toLowerCase(trim(tags[i]))])
              tagged == [wallet EXCEPT !.tags = uniqueTags]
          IN  Out(saveWallet(got.st, tagged), Ok, tagged)

Star == <<"*">>

removeTags(st, nameOrAddress, tags) ==
  LET resolved == resolveWallet(st, nameOrAddress, MaxDepth)
  IN  IF resolved.res # Ok THEN resolved
      ELSE
      LET got == getWallet(resolved.st, resolved.val, MaxDepth)
      IN  IF got.res # Ok THEN got
          ELSE
          LET wallet == got.val
              tagsToRemove == {toLowerCase(trim(tags[i])) : i \in DOMAIN tags}
              kept == IF Star \in Range(tags) THEN <<>>
                      ELSE FilterOut(wallet.tags, tagsToRemove)
              untagged == [wallet EXCEPT !.tags = kept]
          IN  Out(saveWallet(got.st, untagged), Ok, untagged)

\* array.filter(x => keep.has(x.publicKey))
RECURSIVE FilterWallets(_, _)
FilterWallets(wallets, keep) ==
  IF wallets = <<>> THEN <<>>
  ELSE LET front == FilterWallets(SubSeq(wallets, 1, Len(wallets) - 1), keep)
           last == wallets[Len(wallets)]
       IN  IF last.publicKey \in keep THEN Append(front, last) ELSE front

\* the wallets as read, in readdir order
readWallets(fs) ==
  LET dir == readdir(fs)
  IN  [i \in DOMAIN dir |-> WalletListInfo(fs[dir[i]])]

\* faulty variant: a wallet matches when it has some requested tag
listWalletsByTags_Some(fs, filterTags) ==
  IF Len(filterTags) > 0
  THEN FilterWallets(readWallets(fs),
         {a \in DOMAIN fs :
            \E i \in DOMAIN filterTags :
               toLowerCase(filterTags[i]) \in Range(fs[a].tags)})
  ELSE listWallets(fs)

\* listWallets(filterTags): with a filter the matching wallets are returned
\* before the sort, in the order they were read
listWalletsByTags(fs, filterTags) ==
  IF Len(filterTags) > 0
  THEN FilterWallets(readWallets(fs),
         {a \in DOMAIN fs :
            \A i \in DOMAIN filterTags :
               toLowerCase(filterTags[i]) \in Range(fs[a].tags)})
  ELSE listWallets(fs)

----------------------------------------------------------------------------
(* The state machine: one action per call of a public method *)

State ==
  [files |-> files, mapFile |-> mapFile, walletMap |-> walletMap,
   passwordCache |-> passwordCache]

Indices(fs) == {fs[a].index : a \in DOMAIN fs}

HasDuplicateIndex(fs) ==
  \E a, b \in DOMAIN fs : a # b /\ fs[a].index = fs[b].index

\* the call just made: its name, its name / nameOrAddress argument, its
\* newName argument, the address of the key pair it was given, how it ended
\* and what it returned; dup records whether two records shared an index
\* when it started
Call(op, name, newName, addr, out) ==
  [op |-> op, name |-> name, newName |-> newName, addr |-> addr,
   res |-> out.res, val |-> out.val, dup |-> HasDuplicateIndex(files)]

Apply(out, op, name, newName, addr) ==
  /\ files' = out.st.files
  /\ mapFile' = out.st.mapFile
  /\ walletMap' = out.st.walletMap
  /\ passwordCache' = out.st.passwordCache
  /\ lastOp' = Call(op, name, newName, addr, out)
  /\ UNCHANGED race

\* the two calls that create a wallet
Creates == {"generateWallet", "importWallet"}

\* two invocations of the CLI at once
Procs == {1, 2}

\* an invocation before its create call: a WalletService as constructed
IdleProc(p) ==
  [pc |-> "idle", op |-> "none", name |-> Undefined, publicKey |-> Addr(p),
   index |-> 0, seen |-> {}, walletMap |-> EmptyMap,
   passwordCache |-> EmptyMap, res |-> Ok]

Init ==
  /\ files = EmptyMap
  /\ mapFile = EmptyMap
  /\ walletMap = EmptyMap
  /\ passwordCache = EmptyMap
  /\ lastOp = [op |-> "init", name |-> Undefined, newName |-> Undefined,
               addr |-> Undefined, res |-> Ok, val |-> Undefined,
               dup |-> FALSE]
  /\ race = [proc |-> [p \in Procs |-> IdleProc(p)], overlapped |-> FALSE]

GenerateWallet ==
  /\ getNextIndex(files) <= MaxIndex
  /\ \E name \in NameInputs, in \in CreateInputs,
        publicKey \in Addrs \ DOMAIN files, salt \in Salts :
        Apply(generateWallet(State, name, in.password, in.tags, publicKey, salt),
              "generateWallet", name, Undefined, publicKey)

ImportWallet ==
  /\ getNextIndex(files) <= MaxIndex
  /\ \E name \in NameInputs, in \in CreateInputs, seedPhrase \in Seeds,
        salt \in Salts :
        Apply(importWallet(State, name, in.password, seedPhrase, in.tags, salt),
              "importWallet", name, Undefined,
              IF seedPhrase = InvalidSeed THEN Undefined
              ELSE publicKeyOf(seedPhrase))

ResolveWallet ==
  \E nameOrAddress \in LookupInputs :
     Apply(resolveWallet(State, nameOrAddress, MaxDepth),
           "resolveWallet", nameOrAddress, Undefined, Undefined)

RenameWallet ==
  \E nameOrAddress \in LookupInputs, newName \in NewNameInputs :
     Apply(renameWallet(State, nameOrAddress, newName),
           "renameWallet", nameOrAddress, newName, Undefined)

ReindexWallets ==
  Apply(reindexWallets(State), "reindexWallets", Undefined, Undefined,
        Undefined)

Next ==
  \/ GenerateWallet
  \/ ImportWallet
  \/ ResolveWallet
  \/ RenameWallet
  \/ ReindexWallets

Spec == Init /\ [][Next]_vars

\* A record's index rewritten outside the service (an edited file, or the
\* outcome of two racing creations): any index, a duplicate included.
CorruptIndex ==
  \E a \in DOMAIN files, i \in 0..MaxIndex :
     /\ files[a].index # i
     /\ files' = [files EXCEPT ![a].index = i]
     /\ lastOp' = [op |-> "corruptIndex", name |-> Undefined,
                   newName |-> Undefined, addr |-> a, res |-> Ok,
                   val |-> Undefined, dup |-> HasDuplicateIndex(files)]
     /\ UNCHANGED <<mapFile, walletMap, passwordCache, race>>

NextCorrupt ==
  \/ Next
  \/ CorruptIndex

SpecCorrupt == Init /\ [][NextCorrupt]_vars

----------------------------------------------------------------------------
(* A session that creates wallets with tags, unlocks them, asks for their
   key pairs and lists them; a later session starts with an empty cache. *)

HotColdTags == << <<"h","o","t">>, <<"C","o","l","d">> >>
TagInputs == {HotTags, HotColdTags}
FilterInputs ==
  {<< <<"H","O","T">> >>, << <<"h","o","t">>, <<"C","O","L","D">> >>,
   << <<" ","h","o","t">> >>}
RemoveInputs == {HotTags, <<Star>>}
SessionNames == {Undefined, Alice}
SessionLookups == {AliceUpper} \cup Addrs
WrongPassword == "hunter2hunter2"
Passwords == {"password123", WrongPassword}

\* the session password cache of the specification: set(address, password)
setPasswordForWallet(st, address, password) ==
  [st EXCEPT !.passwordCache = MapPut(@, address, password)]

\* clear(address)
clearPasswordForWallet(st, address) ==
  [st EXCEPT !.passwordCache = MapDel(@, address)]

\* a call with tags, or with a tag filter, and its outcome
CallTags(op, name, tags, out) ==
  [op |-> op, name |-> name, tags |-> tags, res |-> out.res, val |-> out.val]

ApplyTags(out, op, name, tags) ==
  /\ files' = out.st.files
  /\ mapFile' = out.st.mapFile
  /\ walletMap' = out.st.walletMap
  /\ passwordCache' = out.st.passwordCache
  /\ lastOp' = CallTags(op, name, tags, out)
  /\ UNCHANGED race

GenerateTagged ==
  /\ getNextIndex(files) <= MaxIndex
  /\ \E name \in SessionNames, tags \in TagInputs,
        publicKey \in Addrs \ DOMAIN files :
        ApplyTags(generateWallet(State, name, "password123", tags, publicKey,
                                 "5a17"),
                  "generateWallet", name, tags)

ImportTagged ==
  /\ getNextIndex(files) <= MaxIndex
  /\ \E name \in SessionNames, tags \in TagInputs,
        seedPhrase \in Seeds \ {InvalidSeed} :
        ApplyTags(importWallet(State, name, "password123", seedPhrase, tags,
                               "5a17"),
                  "importWallet", name, tags)

\* the next invocation of the CLI: a WalletService as constructed
NewSession ==
  ApplyTags(Out([State EXCEPT !.walletMap = EmptyMap,
                              !.passwordCache = EmptyMap], Ok, Undefined),
            "newSession", Undefined, <<>>)

SetPasswordForWallet ==
  \E address \in DOMAIN files, password \in Passwords :
     ApplyTags(Out(setPasswordForWallet(State, address, password), Ok,
                   Undefined),
               "setPasswordForWallet", address, <<>>)

GetKeypair ==
  \E nameOrAddress \in SessionLookups :
     ApplyTags(getKeypair(State, nameOrAddress), "getKeypair", nameOrAddress,
               <<>>)

AddTags ==
  \E nameOrAddress \in SessionLookups, tags \in TagInputs :
     ApplyTags(addTags(State, nameOrAddress, tags), "addTags", nameOrAddress,
               tags)

RemoveTags ==
  \E nameOrAddress \in SessionLookups, tags \in RemoveInputs :
     ApplyTags(removeTags(State, nameOrAddress, tags), "removeTags",
               nameOrAddress, tags)

ListWallets ==
  \E filterTags \in FilterInputs :
     ApplyTags(Out(State, Ok, listWalletsByTags(files, filterTags)),
               "listWallets", Undefined, filterTags)

NextSession ==
  \/ GenerateTagged
  \/ ImportTagged
  \/ NewSession
  \/ SetPasswordForWallet
  \/ GetKeypair
  \/ AddTags
  \/ RemoveTags
  \/ ListWallets

SpecSession == Init /\ [][NextSession]_vars

----------------------------------------------------------------------------
(* The send and spread commands of the CLI (src/index.ts).  A command is a
   process of its own: its WalletService starts as constructed.  The
   prompts, the network and the random draws are inputs of the command. *)

FromInputs == {AliceUpper, Addr(1)}
\* --amount in thousandths of a SOL (or in tokens), --count
AmountInputs == {1, 4}
CountInputs == {1, 2}
\* the password typed for the wallets spread generates
NewWalletPassword == <<"p","w","4","n","e","w","0","1">>

Fresh(st) == [st EXCEPT !.walletMap = EmptyMap, !.passwordCache = EmptyMap]

\* wallets.filter(w => w.publicKey !== sourceWallet.publicKey)
RECURSIVE ExcludeSource(_, _)
ExcludeSource(wallets, publicKey) ==
  IF wallets = <<>> THEN <<>>
  ELSE LET front == ExcludeSource(SubSeq(wallets, 1, Len(wallets) - 1),
                                  publicKey)
           last == wallets[Len(wallets)]
       IN  IF last.publicKey # publicKey THEN Append(front, last) ELSE front

\* the one element of a singleton: the value an await has delivered,
\* computed once
Only(S) == CHOOSE x \in S : TRUE

\* send once the password has been set, from the confirmation on
sendConfirmed(set, from, confirm, transferOk) ==
  IF ~confirm
  THEN Out(clearPasswordForWallet(set, from), "Cancelled", Undefined)
  ELSE Only({IF fromKeypair.res = Hang THEN fromKeypair
             ELSE IF fromKeypair.res # Ok \/ ~transferOk
             THEN Out(clearPasswordForWallet(fromKeypair.st, from),
                      "SendError", Undefined)
             ELSE Out(clearPasswordForWallet(fromKeypair.st, from), Ok,
                      Undefined) :
               fromKeypair \in {getKeypair(set, from)}})

send(st, from, password, confirm, transferOk) ==
  Only({IF fromWallet.res = Hang THEN fromWallet
        ELSE IF fromWallet.res # Ok
        THEN Out(clearPasswordForWallet(fromWallet.st, from), "SendError",
                 Undefined)
        ELSE sendConfirmed(setPasswordForWallet(fromWallet.st, from, password),
                           from, confirm, transferOk) :
          fromWallet \in {getWallet(st, from, MaxDepth)}})

\* the model has no key pair left to draw
NoKeyLeft == "noKeyLeft"

\* the loop over walletsNeeded: generateWallet(walletPassword, walletName),
\* whose first parameter is the name and second the password; fresh holds
\* the public keys Keypair.generate() draws
RECURSIVE generateNeeded(_, _, _, _, _)
generateNeeded(st, i, walletsNeeded, existing, fresh) ==
  IF i >= walletsNeeded THEN Out(st, Ok, Undefined)
  ELSE IF i + 1 > Len(fresh) THEN Out(st, NoKeyLeft, Undefined)
  ELSE LET walletName == <<"wallet-", existing + i + 1>>
           made == generateWallet(st, NewWalletPassword, walletName, <<>>,
                                  fresh[i + 1], "5a17")
       IN  IF made.res # Ok THEN made
           ELSE generateNeeded(made.st, i + 1, walletsNeeded, existing, fresh)

\* spread from the key pair of the source wallet on: every transfer that
\* fails is caught and reported, then the password is cleared
spreadTransfers(generated, from) ==
  Only({IF sourceKeypair.res = Hang THEN sourceKeypair
        ELSE IF sourceKeypair.res # Ok
        THEN Out(sourceKeypair.st, "SpreadError", Undefined)
        ELSE Out(clearPasswordForWallet(sourceKeypair.st, from), Ok,
                 Undefined) :
          sourceKeypair \in {getKeypair(generated.st, from)}})

\* spread once the password has been set.  --variance 0: every amount is
\* total / count, so the smallest is below 0.001 SOL when the thousandths
\* are fewer than the wallets
spreadUnlocked(set, existingWallets, from, amount, count, isSPLTransfer, confirm, fresh) ==
  LET walletsNeeded == Max({0, count - Len(existingWallets)})
      totalWalletsAfterGeneration == Len(existingWallets) + walletsNeeded
  IN  IF ~isSPLTransfer /\ amount < totalWalletsAfterGeneration
      THEN Out(set, "TooSmall", Undefined)
      ELSE IF ~confirm
      THEN Out(clearPasswordForWallet(set, from), "Cancelled", Undefined)
      ELSE Only({IF generated.res \in {Hang, NoKeyLeft} THEN generated
                 ELSE IF generated.res # Ok
                 THEN Out(generated.st, "SpreadError", Undefined)
                 ELSE spreadTransfers(generated, from) :
                   generated \in {generateNeeded(set, 0, walletsNeeded,
                                                 Len(existingWallets), fresh)}})

spread(st, from, password, amount, count, isSPLTransfer, confirm, fresh) ==
  Only({IF sourceWallet.res = Hang THEN sourceWallet
        ELSE IF sourceWallet.res # Ok
        THEN Out(sourceWallet.st, "SpreadError", Undefined)
        ELSE Only({spreadUnlocked(
                     setPasswordForWallet(sourceWallet.st, from, password),
                     existingWallets, from, amount, count, isSPLTransfer,
                     confirm, fresh) :
                   existingWallets \in
                     {ExcludeSource(listWallets(sourceWallet.st.files),
                                    sourceWallet.val.publicKey)}}) :
          sourceWallet \in {getWallet(st, from, MaxDepth)}})

Send ==
  \E from \in FromInputs, password \in Passwords, confirm \in BOOLEAN,
     transferOk \in BOOLEAN :
     \E out \in {send(Fresh(State), from, password, confirm, transferOk)} :
        ApplyTags(out, "send", from, <<>>)

Spread ==
  \E from \in FromInputs, password \in Passwords, amount \in AmountInputs,
     count \in CountInputs, isSPLTransfer \in BOOLEAN, confirm \in BOOLEAN,
     fresh \in Arrangements(Addrs \ DOMAIN files) :
     \E out \in {spread(Fresh(State), from, password, amount, count,
                         isSPLTransfer, confirm, fresh)} :
        /\ out.res # NoKeyLeft
        /\ ApplyTags(out, "spread", from, <<>>)

NextCli ==
  \/ GenerateWallet
  \/ Send
  \/ Spread

SpecCli == Init /\ [][NextCli]_vars

----------------------------------------------------------------------------
(* Two invocations creating wallets at once.  Every await of generateWallet
   and importWallet that reads or writes the directory or wallets.json is a
   step of its own; what runs between two awaits is part of one step. *)

RaceNames == {Undefined, Alice, AliceVariant, Bob}

Running(p) == race.proc[p].pc \notin {"idle", "done"}

\* the service state invocation p works on: the shared files, its own memory
ProcState(p) ==
  [files |-> files, mapFile |-> mapFile,
   walletMap |-> race.proc[p].walletMap,
   passwordCache |-> race.proc[p].passwordCache]

\* invocation p goes on to pc with result res; its memory is that of st
Goto(p, pc, res, st) ==
  [race EXCEPT !.proc[p].pc = pc, !.proc[p].res = res,
               !.proc[p].walletMap = st.walletMap,
               !.proc[p].passwordCache = st.passwordCache]

\* the call is made: validateNameFormat (and, for an import, nothing yet)
RaceStart(p) ==
  /\ race.proc[p].pc = "idle"
  /\ \E op \in Creates, name \in RaceNames :
        LET format == IF name # Undefined THEN validateNameFormat(name) ELSE Ok
            pc == IF format # Ok THEN "done"
                  ELSE IF name # Undefined THEN "validateNameAvailability"
                  ELSE "getNextIndex"
        IN  race' = [race EXCEPT
                       !.proc[p].op = op, !.proc[p].name = name,
                       !.proc[p].pc = pc, !.proc[p].res = format,
                       !.overlapped = @ \/ \E q \in Procs \ {p} : Running(q)]
  /\ UNCHANGED <<files, mapFile, walletMap, passwordCache, lastOp>>

RaceValidateNameAvailability(p) ==
  /\ race.proc[p].pc = "validateNameAvailability"
  /\ LET avail == validateNameAvailability(ProcState(p), race.proc[p].name)
     IN  race' = Goto(p, IF avail.res # Ok THEN "done" ELSE "getNextIndex",
                      avail.res, avail.st)
  /\ UNCHANGED <<files, mapFile, walletMap, passwordCache, lastOp>>

RaceGetNextIndex(p) ==
  /\ race.proc[p].pc = "getNextIndex"
  /\ race' = [race EXCEPT !.proc[p].pc = "validateIndex",
                          !.proc[p].index = getNextIndex(files)]
  /\ UNCHANGED <<files, mapFile, walletMap, passwordCache, lastOp>>

\* seen: the records that were listed when the index was validated
RaceValidateIndex(p) ==
  /\ race.proc[p].pc = "validateIndex"
  /\ LET checked == validateIndex(files, race.proc[p].index)
     IN  race' = [race EXCEPT
                    !.proc[p].pc = IF checked # Ok THEN "done" ELSE "writeFile",
                    !.proc[p].res = checked,
                    !.proc[p].seen = DOMAIN files]
  /\ UNCHANGED <<files, mapFile, walletMap, passwordCache, lastOp>>

RaceWriteFile(p) ==
  /\ race.proc[p].pc = "writeFile"
  /\ LET me == race.proc[p]
         walletInfo == newWalletInfo(me.publicKey, me.name, "5a17", HotTags,
                                     me.index, secretKeyOf(me.publicKey),
                                     "password123")
     IN  /\ files' = MapPut(files, me.publicKey, walletInfo)
         /\ race' = IF me.name # Undefined
                    THEN [race EXCEPT !.proc[p].pc = "loadWalletMap"]
                    ELSE [race EXCEPT
                            !.proc[p].pc = "done",
                            !.proc[p].passwordCache =
                               MapPut(@, me.publicKey, "password123")]
  /\ UNCHANGED <<mapFile, walletMap, passwordCache, lastOp>>

\* addToMap up to its second await: the map is read and the entry set
RaceLoadWalletMap(p) ==
  /\ race.proc[p].pc = "loadWalletMap"
  /\ LET me == race.proc[p]
         l == loadWalletMap(ProcState(p))
     IN  race' = [race EXCEPT
                    !.proc[p].pc = "saveWalletMap",
                    !.proc[p].walletMap =
                       MapPut(l.walletMap, normalizeName(me.name), me.publicKey)]
  /\ UNCHANGED <<files, mapFile, walletMap, passwordCache, lastOp>>

\* the rest of addToMap, then the password is cached and the call returns
RaceSaveWalletMap(p) ==
  /\ race.proc[p].pc = "saveWalletMap"
  /\ mapFile' = saveWalletMap(ProcState(p)).mapFile
  /\ race' = [race EXCEPT
                 !.proc[p].pc = "done",
                 !.proc[p].passwordCache =
                    MapPut(@, race.proc[p].publicKey, "password123")]
  /\ UNCHANGED <<files, walletMap, passwordCache, lastOp>>

NextRace ==
  \E p \in Procs :
     \/ RaceStart(p)
     \/ RaceValidateNameAvailability(p)
     \/ RaceGetNextIndex(p)
     \/ RaceValidateIndex(p)
     \/ RaceWriteFile(p)
     \/ RaceLoadWalletMap(p)
     \/ RaceSaveWalletMap(p)

SpecRace == Init /\ [][NextRace]_vars

----------------------------------------------------------------------------
(* Properties *)

\* normalize(name) as the specification defines it
Normalized(name) == toLowerCase(trim(name))

Named(a) == files[a].name # Undefined

\* listWallets rewrites nothing: every record carries the current version
AllVersioned == \A a \in DOMAIN files : files[a].version = CURRENT_VERSION

\* C1: under serialized creation no two wallet records hold the same index.
C1_IndexUnique ==
  \A a, b \in DOMAIN files : a # b => files[a].index # files[b].index

\* two wallets created one after the other, the second just now
C1_Witness ==
  /\ Cardinality(DOMAIN files) = 2
  /\ lastOp.op \in Creates
  /\ lastOp.res = Ok

\* C2: every record with a non-empty name has the NameMap entry
\* normalize(name) -> its address.
C2_RecordToMap ==
  \A a \in DOMAIN files :
     Named(a) => /\ Normalized(files[a].name) \in DOMAIN mapFile
                 /\ mapFile[Normalized(files[a].name)] = a

\* a wallet created under a name that is not in normalized form, and a
\* second named wallet beside it
C2_Witness ==
  /\ lastOp.op \in Creates
  /\ lastOp.res = Ok
  /\ \E a, b \in DOMAIN files :
        /\ a # b
        /\ Named(a) /\ Named(b)
        /\ files[a].name # Normalized(files[a].name)

\* C3: every NameMap entry points to an existing record, and no record is
\* the target of two entries.
C3_MapToRecord ==
  /\ \A n \in DOMAIN mapFile : mapFile[n] \in DOMAIN files
  /\ \A n, m \in DOMAIN mapFile : n # m => mapFile[n] # mapFile[m]

\* C4: no two distinct records have names with the same normalized form.
C4_NameUnique ==
  \A a, b \in DOMAIN files :
     (a # b /\ Named(a) /\ Named(b))
        => Normalized(files[a].name) # Normalized(files[b].name)

\* two named wallets, after a creation under a variant of a taken name
\* was refused
C4_Witness ==
  /\ \E a, b \in DOMAIN files : a # b /\ Named(a) /\ Named(b)
  /\ lastOp.op \in Creates
  /\ lastOp.res = "DuplicateName"

\* C5: a creation under a name that normalizes to the name of an existing
\* wallet fails with the duplicate-name error, for generateWallet and
\* importWallet alike.
C5_DuplicateNameRefused ==
  [][(/\ lastOp'.op \in Creates
      /\ lastOp'.name # Undefined
      /\ \E a \in DOMAIN files :
            /\ Named(a)
            /\ Normalized(files[a].name) = Normalized(lastOp'.name))
     => (lastOp'.res = "DuplicateName" /\ files' = files /\ mapFile' = mapFile)]_vars

\* "Alice" exists and a creation as "alice " has just been refused
C5_Witness ==
  /\ lastOp.op \in Creates
  /\ lastOp.name = AliceVariant
  /\ lastOp.res = "DuplicateName"
  /\ \E a \in DOMAIN files : files[a].name = Alice

\* the new name of a rename is refused: its format is invalid, or it is
\* mapped to another wallet than the one renamed
RenameMustFail(fs, m, target, newName) ==
  /\ newName # Undefined
  /\ \/ validateNameFormat(newName) # Ok
     \/ /\ Normalized(newName) \in DOMAIN m
        /\ m[Normalized(newName)] # target

\* C6: a renameWallet that is refused (invalid format, or name mapped to a
\* different wallet) fails and leaves the record's name and the NameMap as
\* they were.
C6_RenameFailureAtomic ==
  [][(/\ lastOp'.op = "renameWallet"
      /\ Normalized(lastOp'.name) \in DOMAIN mapFile
      /\ mapFile[Normalized(lastOp'.name)] \in DOMAIN files
      /\ RenameMustFail(files, mapFile, mapFile[Normalized(lastOp'.name)],
                        lastOp'.newName))
     => (/\ lastOp'.res \in {"NameTooShort", "NameTooLong", "NamePattern",
                             "DuplicateName"}
         /\ files' = files
         /\ mapFile' = mapFile)]_vars

\* C7: for a named wallet, resolveWallet on a case/whitespace variant of
\* the name and resolveWallet on the address both return the address.
C7_ResolveNameOrAddress ==
  \A a \in DOMAIN files :
     (/\ lastOp.op = "resolveWallet"
      /\ Named(a)
      /\ \/ Normalized(lastOp.name) = Normalized(files[a].name)
         \/ lastOp.name = a)
        => (lastOp.res = Ok /\ lastOp.val = a)

\* C8: resolveWallet on an input that is neither a mapped name nor the
\* address of a record fails with not-found and changes nothing.
C8_ResolveNotFound ==
  [][(/\ lastOp'.op = "resolveWallet"
      /\ Normalized(lastOp'.name) \notin DOMAIN mapFile
      /\ lastOp'.name \notin DOMAIN files)
     => (lastOp'.res = "NotFound" /\ files' = files /\ mapFile' = mapFile)]_vars

\* C9: importing a key whose address already has a record fails and leaves
\* that record and the NameMap unchanged.
C9_ImportExistingRefused ==
  [][(/\ lastOp'.op = "importWallet"
      /\ lastOp'.addr # Undefined
      /\ lastOp'.addr \in DOMAIN files)
     => (lastOp'.res # Ok /\ files' = files /\ mapFile' = mapFile)]_vars

\* C10: after reindexWallets on N records the indices are exactly 0..N-1,
\* each held by one record, whatever the indices were before.
C10_ReindexContiguous ==
  (lastOp.op = "reindexWallets" /\ lastOp.res = Ok)
     => /\ Indices(files) = 0..(Cardinality(DOMAIN files) - 1)
        /\ ~HasDuplicateIndex(files)

\* a reindex of two records that shared an index
C10_Witness ==
  /\ lastOp.op = "reindexWallets"
  /\ lastOp.res = Ok
  /\ lastOp.dup
  /\ Cardinality(DOMAIN files) = 2

\* C11: reindexWallets is idempotent: once it has run, running it again
\* leaves every record's index, and the whole store, as they are.
C11_ReindexIdempotent ==
  lastOp.op = "reindexWallets" => reindexWallets(State).st = State

\* a reindex of two records that shared an index, one of them named
C11_Witness ==
  /\ lastOp.op = "reindexWallets"
  /\ lastOp.res = Ok
  /\ lastOp.dup
  /\ Cardinality(DOMAIN files) = 2
  /\ mapFile # EmptyMap

\* C12: a newly created wallet gets index max(existing indices) + 1, and 0
\* in an empty store; the new index is greater than every existing index.
C12_NextIndex ==
  [][(lastOp'.op \in Creates /\ lastOp'.res = Ok)
     => LET index == files'[lastOp'.addr].index
        IN  /\ index = IF DOMAIN files = {} THEN 0
                        ELSE Max(Indices(files)) + 1
            /\ \A a \in DOMAIN files : index > files[a].index]_vars

\* a creation into a store of two records whose highest index was 1
C12_Witness ==
  /\ lastOp.op \in Creates
  /\ lastOp.res = Ok
  /\ Cardinality(DOMAIN files) = 2
  /\ files[lastOp.addr].index = 2

Created(p) == race.proc[p].pc = "done" /\ race.proc[p].res = Ok
                 /\ race.proc[p].op \in Creates

\* C13: two records hold the same index only when two creations
\* interleaved, each validating its index before the other had written its
\* record; creations made one after the other never leave a duplicate.
C13_DuplicateOnlyWhenInterleaved ==
  HasDuplicateIndex(files)
     => /\ race.overlapped
        /\ \A p, q \in Procs :
              p # q => race.proc[q].publicKey \notin race.proc[p].seen

\* both creations returned and their two records share an index
C13_Witness ==
  /\ \A p \in Procs : Created(p)
  /\ HasDuplicateIndex(files)

\* C14: a creation that returned without error is missing from the NameMap
\* only when it interleaved with another one; then two records of one
\* name, one of them unmapped, or a lost NameMap entry, are reachable.
C14_LostUpdateOnlyWhenInterleaved ==
  \A p \in Procs :
     (Created(p) /\ race.proc[p].name # Undefined /\ ~race.overlapped)
        => /\ Normalized(race.proc[p].name) \in DOMAIN mapFile
           /\ mapFile[Normalized(race.proc[p].name)] = race.proc[p].publicKey

\* both creations returned, under names of one normalized form, and the
\* NameMap has an entry for one of the two records only
C14_Witness ==
  /\ \A p \in Procs : Created(p)
  /\ Normalized(race.proc[1].name) = Normalized(race.proc[2].name)
  /\ race.proc[1].name # Undefined
  /\ Cardinality(DOMAIN files) = 2
  /\ Cardinality(DOMAIN mapFile) = 1

\* both creations returned, under different names, and the NameMap has
\* lost the entry of one
C14_WitnessLostEntry ==
  /\ \A p \in Procs : Created(p)
  /\ \A p \in Procs : race.proc[p].name # Undefined
  /\ Normalized(race.proc[1].name) # Normalized(race.proc[2].name)
  /\ Cardinality(DOMAIN mapFile) = 1

\* nameOrAddress denotes the wallet at address a: it is a variant of its
\* mapped name, or the address itself
Denotes(nameOrAddress, a) ==
  /\ a \in DOMAIN files
  /\ \/ /\ Normalized(nameOrAddress) \in DOMAIN mapFile
        /\ mapFile[Normalized(nameOrAddress)] = a
     \/ nameOrAddress = a

\* the cached password is the one the record at a was encrypted under
Unlocked(a) ==
  /\ a \in DOMAIN passwordCache
  /\ files[a].encryptedPrivateKey.password = <<passwordCache[a], files[a].salt>>

\* C15: getKeypair for a wallet whose address has no cache entry fails
\* with the not-unlocked error, returns no key pair and changes neither
\* the store nor the cache.
C15_NotUnlocked ==
  [][(/\ lastOp'.op = "getKeypair"
      /\ \E a \in DOMAIN files :
            Denotes(lastOp'.name, a) /\ a \notin DOMAIN passwordCache)
     => (/\ lastOp'.res = "PasswordNotSet"
         /\ lastOp'.val = Undefined
         /\ files' = files
         /\ mapFile' = mapFile
         /\ passwordCache' = passwordCache)]_vars

\* C16: when a send or a spread has finished, on whatever path, the
\* password cache holds no entry for the source wallet, neither under the
\* --from argument nor under the wallet's address.
C16_CacheCleared ==
  (lastOp.op \in {"send", "spread"} /\ lastOp.res # Hang)
     => \A k \in DOMAIN passwordCache :
           k # lastOp.name /\ ~Denotes(lastOp.name, k)

\* C17: with the creation password in the cache, getKeypair returns the
\* key pair of the record: its public key is the record's address and its
\* secret key the generated or imported one.
C17_KeyRoundTrip ==
  [][(lastOp'.op = "getKeypair")
     => \A a \in DOMAIN files :
           (Denotes(lastOp'.name, a) /\ Unlocked(a))
              => /\ lastOp'.res = Ok
                 /\ lastOp'.val = [publicKey |-> a,
                                    secretKey |-> secretKeyOf(a)]]_vars

\* C18: with another password than the creation password in the cache,
\* getKeypair fails with the invalid-password error and returns no key
\* pair.
C18_WrongPassword ==
  [][(lastOp'.op = "getKeypair")
     => \A a \in DOMAIN files :
           (/\ Denotes(lastOp'.name, a)
            /\ a \in DOMAIN passwordCache
            /\ ~Unlocked(a))
              => /\ lastOp'.res = "InvalidPassword"
                 /\ lastOp'.val = Undefined]_vars

\* the wallets whose tags contain every requested tag, compared without
\* regard to case
Matching(fs, filterTags) ==
  {a \in DOMAIN fs :
     \A i \in DOMAIN filterTags :
        \E j \in DOMAIN fs[a].tags :
           toLowerCase(fs[a].tags[j]) = toLowerCase(filterTags[i])}

\* C19: listWallets with a non-empty filter returns exactly the wallets
\* whose tags contain every requested tag, compared case-insensitively.
C19_TagAndFilter ==
  (lastOp.op = "listWallets" /\ Len(lastOp.tags) > 0)
     => /\ {lastOp.val[i].publicKey : i \in DOMAIN lastOp.val}
              = Matching(files, lastOp.tags)
        /\ Len(lastOp.val) = Cardinality(Matching(files, lastOp.tags))

\* two wallets share a requested tag and the filter of two tags returns
\* the one that has both
C19_Witness ==
  /\ lastOp.op = "listWallets"
  /\ Len(lastOp.tags) = 2
  /\ Len(lastOp.val) = 1
  /\ Cardinality(DOMAIN files) = 2
  /\ \A a \in DOMAIN files : <<"h","o","t">> \in Range(files[a].tags)

\* C20: every record's tag list holds only trimmed lower-case tags and no
\* tag twice, whatever tags the creation was given.
C20_TagSet ==
  \A a \in DOMAIN files :
     LET tags == files[a].tags
     IN  /\ \A i \in DOMAIN tags : tags[i] = Normalized(tags[i])
         /\ \A i, j \in DOMAIN tags : i # j => tags[i] # tags[j]

\* the tags of a call as the service normalizes them
NormalizedTags(tags) == {Normalized(tags[i]) : i \in DOMAIN tags}

\* C21: addTags sets the record's tags to the union of its previous tags
\* and the trimmed, lower-cased input tags, each once (so that the same
\* call made again changes nothing).
C21_AddTagsUnion ==
  [][(lastOp'.op = "addTags")
     => \A a \in DOMAIN files :
           Denotes(lastOp'.name, a)
              => /\ lastOp'.res = Ok
                 /\ Range(files'[a].tags)
                       = Range(files[a].tags) \cup NormalizedTags(lastOp'.tags)
                 /\ \A i, j \in DOMAIN files'[a].tags :
                       i # j => files'[a].tags[i] # files'[a].tags[j]]_vars

\* C22: removeTags with "*" among its tags leaves the record without tags;
\* otherwise it removes the trimmed, lower-cased listed tags and keeps
\* every other tag of the record.
C22_RemoveTags ==
  [][(lastOp'.op = "removeTags")
     => \A a \in DOMAIN files :
           Denotes(lastOp'.name, a)
              => /\ lastOp'.res = Ok
                 /\ Range(files'[a].tags)
                       = IF Star \in Range(lastOp'.tags) THEN {}
                         ELSE Range(files[a].tags)
                                 \ NormalizedTags(lastOp'.tags)]_vars

----------------------------------------------------------------------------
(* A store that holds files the current revision did not write: records of
   an earlier revision, without version and with or without index, and
   files JSON.parse rejects. *)

\* the content of a file that JSON.parse rejects
Corrupt == [content |-> "{"]

Unparsable(fs) == {a \in DOMAIN fs : fs[a] = Corrupt}

\* faulty variant: the migrated record is written without its salt
migrateWallet_NoSalt(wallet, nextIndex) ==
  IF wallet.version = NoVersion
  THEN [wallet EXCEPT !.version = 1,
                      !.index = IF @ = NoIndex THEN nextIndex ELSE @,
                      !.salt = ""]
  ELSE wallet

\* nextIndex is what the nested getNextIndex returned, when it returned
migrateWallet(wallet, nextIndex) ==
  IF wallet.version = NoVersion
  THEN [wallet EXCEPT !.version = 1,
                      !.index = IF @ = NoIndex THEN nextIndex ELSE @]
  ELSE wallet

\* listWallets over any store.  The callbacks of Promise.all run on their
\* own: the first rejection ends the call in its catch with [], the other
\* callbacks still save what they migrated.  A record without version and
\* index asks getNextIndex, which lists the same directory again: that
\* nested call ends only in its catch, with [], so getNextIndex gives 0;
\* when every file parses, each nested call waits for the next one.
listWalletsOnRead(st) ==
  LET fs == st.files
      waits == {a \in DOMAIN fs \ Unparsable(fs) :
                  fs[a].version = NoVersion /\ fs[a].index = NoIndex}
      saved == [a \in DOMAIN fs |->
                  IF a \in Unparsable(fs) THEN Corrupt
                  ELSE IF a \in waits /\ Unparsable(fs) = {} THEN fs[a]
                  ELSE migrateWallet(fs[a], 0)]
  IN  IF Unparsable(fs) # {}
      THEN Out([st EXCEPT !.files = saved], Ok, <<>>)
      ELSE IF waits # {}
      THEN Out([st EXCEPT !.files = saved], Hang, Undefined)
      ELSE Out([st EXCEPT !.files = saved], Ok, listWallets(saved))

\* generateWallet without a name, from getNextIndex on: getNextIndex and
\* validateIndex list the store; with [] for a list the index is 0 and
\* validateIndex finds it free
persistOnRead(st, password, tags, publicKey, salt) ==
  Only({IF listed.res = Hang THEN listed
        ELSE IF Unparsable(st.files) = {}
        THEN persistNewWallet(listed.st, Undefined, password, tags, publicKey,
                              salt, secretKeyOf(publicKey))
        ELSE Out([listed.st EXCEPT
                    !.files = MapPut(@, publicKey,
                                newWalletInfo(publicKey, Undefined, salt, tags,
                                              0, secretKeyOf(publicKey),
                                              password)),
                    !.passwordCache = MapPut(@, publicKey, password)],
                 Ok, publicKey) :
          listed \in {listWalletsOnRead(st)}})

\* the call just made, how it ended, what it returned and the store it
\* started on
ApplyOnRead(out, op) ==
  /\ files' = out.st.files
  /\ mapFile' = out.st.mapFile
  /\ walletMap' = out.st.walletMap
  /\ passwordCache' = out.st.passwordCache
  /\ lastOp' = [op |-> op, res |-> out.res, val |-> out.val, before |-> files]
  /\ UNCHANGED race

\* a record of an earlier revision appears in the accounts directory
PlaceLegacy ==
  \E publicKey \in Addrs \ DOMAIN files, salt \in Salts,
     index \in {NoIndex} \cup (0..MaxIndex) :
     ApplyOnRead(
       Out([State EXCEPT
              !.files = MapPut(@, publicKey,
                 [newWalletInfo(publicKey, Undefined, salt, <<>>, index,
                                secretKeyOf(publicKey), "password123")
                    EXCEPT !.version = NoVersion])],
           Ok, Undefined),
       "placeLegacy")

\* a file that does not parse appears in the accounts directory, under the
\* name of a record or under another name
PlaceCorrupt ==
  \E file \in (Addrs \cup {<<"n","o","t","e","s">>}) \ DOMAIN files :
     ApplyOnRead(Out([State EXCEPT !.files = MapPut(@, file, Corrupt)],
                     Ok, Undefined),
                 "placeCorrupt")

GenerateOnRead ==
  \E in \in CreateInputs, publicKey \in Addrs \ DOMAIN files, salt \in Salts :
     ApplyOnRead(persistOnRead(State, in.password, in.tags, publicKey, salt),
                 "generateWallet")

ListOnRead == ApplyOnRead(listWalletsOnRead(State), "listWallets")

\* JSON.parse throws before reindexWallets writes anything
ReindexOnRead ==
  ApplyOnRead(IF Unparsable(files) # {}
              THEN Out(State, "SyntaxError", Undefined)
              ELSE reindexWallets(State),
              "reindexWallets")

NextOnRead ==
  \/ PlaceLegacy
  \/ PlaceCorrupt
  \/ GenerateOnRead
  \/ ListOnRead
  \/ ReindexOnRead

SpecOnRead == Init /\ [][NextOnRead]_vars

\* the records of the store a call started on that had no version
Legacy(fs) == {a \in DOMAIN fs \ Unparsable(fs) : fs[a].version = NoVersion}

\* C23: when listWallets reads a store that holds a record without version
\* (and no file that does not parse), the call completes, the record is
\* saved with version 1, a record that had no index has one that no other
\* record holds, and the returned list has the migrated record.
C23_MigrationOnRead ==
  (/\ "before" \in DOMAIN lastOp
   /\ lastOp.op = "listWallets"
   /\ Legacy(lastOp.before) # {}
   /\ Unparsable(lastOp.before) = {})
     => /\ lastOp.res = Ok
        /\ \A a \in Legacy(lastOp.before) :
              /\ files[a].version = 1
              /\ lastOp.before[a].index = NoIndex
                    => \A b \in DOMAIN files \ {a} :
                          files[b].index # files[a].index
              /\ \E i \in DOMAIN lastOp.val :
                    lastOp.val[i] = WalletListInfo(files[a])

\* C24: reading a record that has a version writes nothing and changes no
\* field of it, and no operation lowers or removes the version of a record.
C24_MigrationForwardOnly ==
  ("before" \in DOMAIN lastOp)
     => \A a \in DOMAIN lastOp.before \ Legacy(lastOp.before) :
           lastOp.before[a] # Corrupt
              => /\ a \in DOMAIN files
                 /\ files[a] # Corrupt
                 /\ files[a].version # NoVersion
                 /\ files[a].version >= lastOp.before[a].version
                 /\ lastOp.op = "listWallets" => files[a] = lastOp.before[a]

\* a listing of a store that held a versioned record, which it returns
C24_Witness ==
  /\ "before" \in DOMAIN lastOp
  /\ lastOp.op = "listWallets"
  /\ lastOp.res = Ok
  /\ \E a \in DOMAIN lastOp.before \ Legacy(lastOp.before) :
        /\ lastOp.before[a] # Corrupt
        /\ lastOp.val # <<>>

\* C25: when a file of the store does not parse, listWallets ends with an
\* error instead of returning a list without that record.
C25_FailLoudListing ==
  (/\ "before" \in DOMAIN lastOp
   /\ lastOp.op = "listWallets"
   /\ Unparsable(lastOp.before) # {})
     => lastOp.res \notin {Ok, Hang}

----------------------------------------------------------------------------
(* Creations and renamings over names of every shape *)

\* no name; a name that differs from its normalized form; names of 2, 32
\* and 33 characters; a name of 4 characters that normalizes to 2; '-' and
\* '_' inside a name and at its end
FormatInputs ==
  {Undefined, AliceUpper, TooShort, <<" ","a","b"," ">>, <<"a","-","_","1">>,
   BadPattern, [i \in 1..NAME_MAX_LENGTH |-> "a"], TooLong}

GenerateNamed ==
  /\ getNextIndex(files) <= MaxIndex
  /\ \E name \in FormatInputs, in \in CreateInputs,
        publicKey \in Addrs \ DOMAIN files, salt \in Salts :
        Apply(generateWallet(State, name, in.password, in.tags, publicKey, salt),
              "generateWallet", name, Undefined, publicKey)

ImportNamed ==
  /\ getNextIndex(files) <= MaxIndex
  /\ \E name \in FormatInputs, in \in CreateInputs,
        seedPhrase \in Seeds \ {InvalidSeed}, salt \in Salts :
        Apply(importWallet(State, name, in.password, seedPhrase, in.tags, salt),
              "importWallet", name, Undefined, publicKeyOf(seedPhrase))

RenameNamed ==
  \E nameOrAddress \in {AliceUpper}, newName \in FormatInputs :
     Apply(renameWallet(State, nameOrAddress, newName),
           "renameWallet", nameOrAddress, newName, Undefined)

NextNamed ==
  \/ GenerateNamed
  \/ ImportNamed
  \/ RenameNamed

SpecNamed == Init /\ [][NextNamed]_vars

\* C26: every non-empty name that generateWallet, importWallet or
\* renameWallet accepts has a normalized form of 3 to 32 characters that
\* starts and ends with a letter or digit and has only letters, digits, '-'
\* and '_' in between; a creation without a name is accepted, its record
\* has no name and the NameMap gets no entry.
C26_NameFormat ==
  [][(lastOp'.op \in Creates \cup {"renameWallet"} /\ lastOp'.res = Ok)
     => LET name == IF lastOp'.op = "renameWallet" THEN lastOp'.newName
                    ELSE lastOp'.name
            n == Normalized(name)
        IN  IF name = Undefined
            THEN lastOp'.op \in Creates
                    => /\ files'[lastOp'.addr].name = Undefined
                       /\ mapFile' = mapFile
            ELSE /\ Len(n) >= 3
                 /\ Len(n) <= 32
                 /\ n[1] \in Range(UpperCase \o LowerCase \o Digits)
                 /\ n[Len(n)] \in Range(UpperCase \o LowerCase \o Digits)
                 /\ \A i \in DOMAIN n :
                       n[i] \in Range(UpperCase \o LowerCase \o Digits)
                                   \cup {"-", "_"}]_vars

\* a wallet created under " ALICE", and one created without a name
C26_Witness ==
  /\ lastOp.op \in Creates
  /\ lastOp.res = Ok
  /\ lastOp.name = AliceUpper
  /\ \E a \in DOMAIN files : files[a].name = Undefined

----------------------------------------------------------------------------
(* The transfer phase of spread *)

\* how a spread run ends before its transfer phase: an error caught by the
\* action, an amount below the minimum, or the user's refusal
SpreadStopped == {"SpreadError", "TooSmall", "Cancelled"}

\* C28: a spread run from a stored wallet that reaches its transfer phase
\* makes one attempt for every destination wallet, whatever the other
\* attempts do, reports each of them and completes.
C28_EveryDestinationAttempted ==
  (/\ lastOp.op = "spread"
   /\ \E a \in DOMAIN files : Denotes(lastOp.name, a)
   /\ lastOp.res \notin SpreadStopped)
     => lastOp.res = Ok

----------------------------------------------------------------------------
(* generateRandomDistribution.  A JavaScript number is a fraction n/d in
   lowest terms with d > 0, Infinity or -Infinity (n is the sign), or NaN;
   the arithmetic is exact on fractions and IEEE 754 on the other values. *)

\* the largest count of a call
MaxCount == 3

RECURSIVE GCD(_, _)
GCD(a, b) == IF b = 0 THEN a ELSE GCD(b, a % b)

Sgn(n) == IF n > 0 THEN 1 ELSE IF n < 0 THEN -1 ELSE 0

Fin(n, d) ==
  LET g == GCD(IF n < 0 THEN -n ELSE n, d)
  IN  [k |-> "fin", n |-> n \div g, d |-> d \div g]

Infinity(sign) == [k |-> "inf", n |-> sign, d |-> 1]

NaN == [k |-> "nan", n |-> 0, d |-> 1]

\* x * y
Times(x, y) ==
  IF x.k = "nan" \/ y.k = "nan" THEN NaN
  ELSE IF x.k = "inf" \/ y.k = "inf"
  THEN IF x.n = 0 \/ y.n = 0 THEN NaN ELSE Infinity(Sgn(x.n) * Sgn(y.n))
  ELSE Fin(x.n * y.n, x.d * y.d)

\* x + y
Plus(x, y) ==
  IF x.k = "nan" \/ y.k = "nan" THEN NaN
  ELSE IF x.k = "inf" /\ y.k = "inf" THEN IF x.n = y.n THEN x ELSE NaN
  ELSE IF x.k = "inf" THEN x
  ELSE IF y.k = "inf" THEN y
  ELSE Fin(x.n * y.d + y.n * x.d, x.d * y.d)

\* x / y
Over(x, y) ==
  IF x.k = "nan" \/ y.k = "nan" THEN NaN
  ELSE IF x.k = "inf"
  THEN IF y.k = "inf" THEN NaN
       ELSE Infinity(x.n * (IF y.n < 0 THEN -1 ELSE 1))
  ELSE IF y.k = "inf" THEN Fin(0, 1)
  ELSE IF y.n = 0 THEN IF x.n = 0 THEN NaN ELSE Infinity(Sgn(x.n))
  ELSE Fin(Sgn(y.n) * x.n * y.d, x.d * (Sgn(y.n) * y.n))

\* Math.max(x, y)
MathMax(x, y) ==
  IF x.k = "nan" \/ y.k = "nan" THEN NaN
  ELSE IF x.k = "inf" THEN IF x.n = 1 THEN x ELSE y
  ELSE IF y.k = "inf" THEN IF y.n = 1 THEN y ELSE x
  ELSE IF x.n * y.d < y.n * x.d THEN y ELSE x

\* values.reduce((a, b) => a + b, 0)
RECURSIVE SumOf(_)
SumOf(values) ==
  IF values = <<>> THEN Fin(0, 1)
  ELSE Plus(SumOf(SubSeq(values, 1, Len(values) - 1)), values[Len(values)])

\* what generateGaussian can return: sqrt(-2 ln u1) cos(2 pi u2) is any
\* finite number of either sign when u1 > 0; Math.random() can return 0,
\* then Math.log(u1) is -Infinity and z is Infinity or -Infinity with the
\* sign of the cosine, which is never 0 for a double
GaussianOutcomes ==
  {Fin(-3, 1), Fin(-1, 2), Fin(0, 1), Fin(1, 1), Infinity(1), Infinity(-1)}

\* z[i] is the outcome of the i-th call of generateGaussian
generateRandomDistribution(count, total, variance, z) ==
  LET base == Over(total, Fin(count, 1))
      values == [i \in 1..count |->
                   MathMax(Times(base, Plus(Fin(1, 1), Times(z[i], variance))),
                           Times(base, Fin(1, 10)))]
      sum == SumOf(values)
      scaleFactor == Over(total, sum)
  IN  [i \in 1..count |-> Times(values[i], scaleFactor)]

\* a call with count >= 1, total > 0 and variance in [0, 1].  The function
\* keeps no state: a call made first shows what every call does.
Distribute ==
  /\ lastOp.op = "init"
  /\ \E count \in 1..MaxCount, total \in {Fin(1000, 1), Fin(7, 2)},
        variance \in {Fin(0, 1), Fin(1, 2), Fin(1, 1)} :
        \E z \in [1..count -> GaussianOutcomes] :
           /\ lastOp' = [op |-> "generateRandomDistribution", count |-> count,
                         total |-> total, variance |-> variance, z |-> z,
                         val |-> generateRandomDistribution(count, total,
                                                            variance, z)]
           /\ UNCHANGED <<files, mapFile, walletMap, passwordCache, race>>

SpecDistribution == Init /\ [][Distribute]_vars

\* C29: generateRandomDistribution(count, total, variance) with count >= 1,
\* total > 0 and variance in [0, 1] returns count values, each a positive
\* number, whose sum is total, whatever the random draws give.
C29_DistributionSum ==
  lastOp.op = "generateRandomDistribution"
     => /\ Len(lastOp.val) = lastOp.count
        /\ \A i \in DOMAIN lastOp.val :
              lastOp.val[i].k = "fin" /\ lastOp.val[i].n > 0
        /\ SumOf(lastOp.val) = lastOp.total

\* C30: with variance 0, generateRandomDistribution returns count values
\* that all equal total / count, whatever the random draws give.
C30_ZeroVariance ==
  (lastOp.op = "generateRandomDistribution" /\ lastOp.variance = Fin(0, 1))
     => \A i \in DOMAIN lastOp.val :
           lastOp.val[i] = Over(lastOp.total, Fin(lastOp.count, 1))

----------------------------------------------------------------------------
(* Secrets, lookups, failed creations, frames and orders *)

\* C31: no wallet record and no NameMap holds a password in plaintext: the
\* password typed for the wallets that spread generates is the name of no
\* record and the key of no NameMap entry, and every record holds its secret
\* key only as the ciphertext of that key.
C31_SecretsAtRest ==
  /\ \A a \in DOMAIN files :
        /\ files[a].name # NewWalletPassword
        /\ files[a].encryptedPrivateKey.data = secretKeyOf(a)
  /\ Normalized(NewWalletPassword) \notin DOMAIN mapFile

\* C32: resolveWallet returns an address or throws, whatever string it is
\* given and whatever the store holds; it never goes on calling getWallet
\* and itself without end.
C32_LookupTerminates ==
  lastOp.op = "resolveWallet" => lastOp.res # Hang

\* C33: generateWallet never writes a record whose index another record of
\* the store holds, also when a file of the store does not parse at the
\* time of the creation.
C33_IndexCheckEffective ==
  (/\ "before" \in DOMAIN lastOp
   /\ lastOp.op = "generateWallet"
   /\ lastOp.res = Ok)
     => \A a \in DOMAIN files \ ({lastOp.val} \cup Unparsable(files)) :
           files[a].index # files[lastOp.val].index

\* C34: a generateWallet or importWallet that throws writes and modifies no
\* wallet record and leaves the NameMap and the password cache as they were.
C34_FailedCreateChangesNothing ==
  [][(lastOp'.op \in Creates /\ lastOp'.res \notin {Ok, Hang})
     => /\ files' = files
        /\ mapFile' = mapFile
        /\ passwordCache' = passwordCache]_vars

\* a creation refused for its name in a store that holds a wallet
C34_Witness ==
  /\ lastOp.op \in Creates
  /\ lastOp.res = "DuplicateName"
  /\ files # EmptyMap
  /\ passwordCache # EmptyMap

\* C35: renaming a named wallet to a name that normalizes to its present
\* name succeeds and the NameMap still maps that name to it; renaming it
\* with no new name succeeds, clears the record's name and removes the
\* NameMap entry, so that the old name is free again.
C35_RenameToSelfOrNone ==
  [][(/\ lastOp'.op = "renameWallet"
      /\ Normalized(lastOp'.name) \in DOMAIN mapFile
      /\ mapFile[Normalized(lastOp'.name)] \in DOMAIN files)
     => LET a == mapFile[Normalized(lastOp'.name)]
            old == Normalized(files[a].name)
        IN  /\ (lastOp'.newName # Undefined /\ Normalized(lastOp'.newName) = old)
                  => /\ lastOp'.res = Ok
                     /\ old \in DOMAIN mapFile'
                     /\ mapFile'[old] = a
            /\ lastOp'.newName = Undefined
                  => /\ lastOp'.res = Ok
                     /\ files'[a].name = Undefined
                     /\ old \notin DOMAIN mapFile']_vars

\* The mutators side by side: wallets are created with names and tags, a
\* record of an earlier revision appears afterwards, and the store is
\* tagged, renamed, reindexed and listed.
NextFrame ==
  \/ (\A a \in DOMAIN files : files[a].version # NoVersion) /\ GenerateTagged
  \/ PlaceLegacy
  \/ AddTags
  \/ RemoveTags
  \/ RenameWallet
  \/ ReindexOnRead
  \/ ListOnRead

SpecFrame == Init /\ [][NextFrame]_vars

\* a record but for the fields named
SameBut(new, old, fields) ==
  \A f \in DOMAIN old \ fields : f \in DOMAIN new /\ new[f] = old[f]

\* C36: addTags, removeTags, renameWallet, reindexWallets and the migration
\* of a listing change no record's address, salt or encryptedPrivateKey and
\* remove no record; addTags and removeTags change nothing but the tags of
\* the record they are called for; reindexWallets changes nothing but index
\* and version.
C36_MutatorFrame ==
  [][/\ lastOp'.op \in {"addTags", "removeTags", "renameWallet",
                        "reindexWallets", "listWallets"}
          => /\ DOMAIN files' = DOMAIN files
             /\ \A a \in DOMAIN files :
                   SameBut(files'[a], files[a],
                           {"name", "tags", "index", "version"})
     /\ lastOp'.op \in {"addTags", "removeTags"}
          => /\ mapFile' = mapFile
             /\ \A a \in DOMAIN files :
                   /\ SameBut(files'[a], files[a], {"tags"})
                   /\ files'[a] # files[a] => Denotes(lastOp'.name, a)
     /\ lastOp'.op = "reindexWallets"
          => /\ mapFile' = mapFile
             /\ \A a \in DOMAIN files :
                   SameBut(files'[a], files[a], {"index", "version"})]_vars

\* a reindexing that gave a record another index and a record its version
C36_Witness ==
  /\ "before" \in DOMAIN lastOp
  /\ lastOp.op = "reindexWallets"
  /\ \E a \in DOMAIN files : files[a].index # lastOp.before[a].index
  /\ \E a \in DOMAIN files : files[a].version # lastOp.before[a].version

\* the characters in the order of their UTF-16 code units
CodeUnitOrder == <<" ", "-">> \o Digits \o UpperCase \o <<"_">> \o LowerCase

CodeUnitOf ==
  [c \in Characters |->
     IF c \in Range(CodeUnitOrder)
     THEN CHOOSE i \in DOMAIN CodeUnitOrder : CodeUnitOrder[i] = c
     ELSE 0]

\* C37 as stated: after reindexWallets a record's index is below another's
\* exactly when its address comes first in the lexicographic order of
\* strings.
C37_IndexOrderLexicographic ==
  (lastOp.op = "reindexWallets" /\ lastOp.res = Ok)
     => \A a, b \in DOMAIN files :
           files[a].index < files[b].index <=> LexLess(a, b, CodeUnitOf)

\* C37: after reindexWallets a record's index is below another's exactly
\* when its address comes first under String.prototype.localeCompare, which
\* orders letters alphabetically whatever their case.
C37_IndexOrderLocale ==
  (lastOp.op = "reindexWallets" /\ lastOp.res = Ok)
     => \A a, b \in DOMAIN files :
           files[a].index < files[b].index <=> localeCompare(a, b) < 0

\* a reindexing that numbers the address in "a" before the address in "B"
C37_Witness ==
  /\ lastOp.op = "reindexWallets"
  /\ lastOp.res = Ok
  /\ DOMAIN files = Addrs
  /\ files[Addr(2)].index < files[Addr(1)].index

\* C38: the wallets listWallets returns are in ascending order of index,
\* with a tag filter as without one.
C38_ListInIndexOrder ==
  (lastOp.op = "listWallets" /\ lastOp.res = Ok /\ "tags" \in DOMAIN lastOp)
     => \A i, j \in DOMAIN lastOp.val :
           i < j => lastOp.val[i].index <= lastOp.val[j].index

----------------------------------------------------------------------------
(* The wallets of a spread run *)

\* the most wallets beside the source in the store, and the largest --count
MaxWallets == 10

\* existing is the number of wallets beside the source before the run.  The
\* loop calls generateWallet walletsNeeded times with the same first
\* argument, so its second call finds the name taken and ends the run; else
\* the destinations are the wallets beside the source that listWallets
\* returns after the loop.
spreadCounts(existing, targetCount) ==
  LET walletsNeeded == Max({0, targetCount - existing})
      totalWalletsAfterGeneration == existing + walletsNeeded
  IN  [res |-> IF walletsNeeded > 1 THEN "DuplicateName" ELSE Ok,
       walletsNeeded |-> walletsNeeded,
       individualAmounts |-> totalWalletsAfterGeneration,
       destinationWallets |-> existing + (IF walletsNeeded > 0 THEN 1 ELSE 0)]

\* a run up to its list of destinations; what it computes depends on the
\* store only by the number of its wallets
SpreadCounts ==
  /\ lastOp.op = "init"
  /\ \E existing \in 0..MaxWallets, targetCount \in 1..MaxWallets :
        /\ lastOp' = [op |-> "spread", existing |-> existing,
                      count |-> targetCount,
                      res |-> spreadCounts(existing, targetCount).res,
                      val |-> spreadCounts(existing, targetCount)]
        /\ UNCHANGED <<files, mapFile, walletMap, passwordCache, race>>

SpecSpreadCounts == Init /\ [][SpreadCounts]_vars

\* C39: a spread run with --count n that reaches its transfers has n
\* destination wallets, and the amounts computed for it have one entry for
\* each of them, also when the store holds more than n wallets beside the
\* source.
C39_DestinationCount ==
  (lastOp.op = "spread" /\ "count" \in DOMAIN lastOp /\ lastOp.res = Ok)
     => /\ lastOp.val.destinationWallets = lastOp.count
        /\ lastOp.val.individualAmounts = lastOp.val.destinationWallets

----------------------------------------------------------------------------
(* The floor of a distribution *)

\* C40: every value generateRandomDistribution returns is a number that is
\* at least a tenth of total / count, for every variance in [0, 1] and
\* whatever the random draws give.
C40_DistributionFloor ==
  lastOp.op = "generateRandomDistribution"
     => LET floor == Times(Over(lastOp.total, Fin(lastOp.count, 1)), Fin(1, 10))
        IN  \A i \in DOMAIN lastOp.val :
               /\ lastOp.val[i].k = "fin"
               /\ lastOp.val[i].n * floor.d >= floor.n * lastOp.val[i].d

====
